---- MODULE Spec2Model ----
(***************************************************************************)
(* Model of experiments.py: the generator of the threshold queries         *)
(* (TQ1 path, TQ2 neighborhood, TQ3 connectivity; naive and windowed), the *)
(* psql/createdb/dropdb driver, the repeated measurement of a query, and   *)
(* the CSV report of run_experiments.                                      *)
(*                                                                         *)
(* A text (an SQL query, a script file) is the sequence of its lexical     *)
(* tokens: 'R%i.B = R%i.A' % (0,1) is <<"R0",".","B","=","R1",".","A">>.   *)
(* White space and line breaks are not kept.                               *)
(***************************************************************************)
EXTENDS Integers, Sequences, FiniteSets, TLC

----------------------------------------------------------------------------
(* Bounds of the model.                                                    *)

MaxData == 2         \* datasets of a batch: 1..MaxData
MaxQueries == 2      \* query descriptors of a batch: 1..MaxQueries
MaxRuns == 3         \* the runs parameter: 1..MaxRuns
MaxWork == 4         \* query runs of a batch: ndatas * len(queries) * runs <= MaxWork
MaxMs == 2           \* whole milliseconds psql reports: 1..MaxMs
MaxK == 2            \* number of joins k of a generated query: 1..MaxK
MaxThreshold == 3    \* threshold of a generated query: 1..MaxThreshold
MaxNode == 3         \* vertices of the edge relation R: 1..MaxNode
MaxEdges == 2        \* rows of the edge relation R: 0..MaxEdges

----------------------------------------------------------------------------
(* Program constants.                                                      *)

default_timeout == 1800000

\* The value 'TIMEOUT' of a run result; a duration is a number >= 0.
TIMEOUT == -1

\* float('inf'), the sort key of TIMEOUT: above every duration of the model.
Infinity == 1000000

----------------------------------------------------------------------------
(* Texts.                                                                  *)

RECURSIVE Flatten(_)
Flatten(ss) == IF Len(ss) = 0 THEN <<>> ELSE Head(ss) \o Flatten(Tail(ss))

\* 'R%i' % (i,), 'X%i' % (i,), ... and '%i' % (n,)
Nm(prefix, i) == prefix \o ToString(i)
Num(n) == ToString(n)

\* for i in range(length): 'R AS R%i' and ', ' between two of them
FromChain(length) ==
    Flatten([n \in 1..length |->
        <<"R", "AS", Nm("R", n - 1)>> \o (IF n - 1 < length - 1 THEN <<",">> ELSE <<>>)])

\* for i in range(length-1): 'R%i.B = R%i.A' and ' AND ' between two of them
WhereChain(length) ==
    Flatten([n \in 1..(length - 1) |->
        <<Nm("R", n - 1), ".", "B", "=", Nm("R", n), ".", "A">>
        \o (IF n - 1 < length - 1 - 1 THEN <<"AND">> ELSE <<>>)])

\* TQ1 naive
prep_path_naiv_query(length, threshold) ==
    <<"SELECT", "DISTINCT", "R0", ".", "A", ",", Nm("R", length - 1), ".", "B">>
    \o <<"FROM">> \o FromChain(length)
    \o <<"WHERE">> \o WhereChain(length)
    \o <<"LIMIT", Num(threshold), ";">>

\* TQ2 naive
prep_neig_naiv_query(length, threshold) ==
    <<"SELECT", "R0", ".", "A">>
    \o <<"FROM">> \o FromChain(length)
    \o <<"WHERE">> \o WhereChain(length)
    \o <<"GROUP", "BY", "R0", ".", "A">>
    \o <<"HAVING", "COUNT", "(", "DISTINCT", Nm("R", length - 1), ".", "B", ")",
         ">=", Num(threshold), ";">>

\* TQ3 naive
prep_conn_naiv_query(length, threshold) ==
    <<"SELECT", "SUB", ".", "X0", ",", "SUB", ".", Nm("X", length)>>
    \o <<"FROM", "(">>
    \o <<"SELECT", "DISTINCT", "R0", ".", "A", "AS", "X0">>
    \o Flatten([n \in 1..length |->
           <<",", Nm("R", n - 1), ".", "B", "AS", Nm("X", n)>>])
    \o <<"FROM">> \o FromChain(length)
    \o <<"WHERE">> \o WhereChain(length)
    \o <<")", "AS", "SUB">>
    \o <<"GROUP", "BY", "SUB", ".", "X0", ",", "SUB", ".", Nm("X", length)>>
    \o <<"HAVING", "COUNT", "(", "*", ")", ">=", Num(threshold), ";">>

\* (mutant) the join of stage J<j> compares R.B with the end of the path, X<length>
BackwardJ_joins_end(j, length) ==
    <<Nm("J", j), "AS">>
    \o (IF j = length
        THEN <<"(", "SELECT", "DISTINCT", "A", "AS", Nm("X", j - 1), ",",
               "B", "AS", Nm("X", j), "FROM", "R", ")", ",">>
        ELSE <<"(", "SELECT", "DISTINCT", "R", ".", "A", "AS", Nm("X", j - 1), ",",
               Nm("X", length),
               "FROM", "R", ",", Nm("S", j + 1),
               "WHERE", "R", ".", "B", "=", Nm("S", j + 1), ".", Nm("X", length), ")", ",">>)

\* The stages J<j>, W<j>, S<j> of the backward windowed queries (TQ1, TQ2).
BackwardJ(j, length) ==
    <<Nm("J", j), "AS">>
    \o (IF j = length
        THEN <<"(", "SELECT", "DISTINCT", "A", "AS", Nm("X", j - 1), ",",
               "B", "AS", Nm("X", j), "FROM", "R", ")", ",">>
        ELSE <<"(", "SELECT", "DISTINCT", "R", ".", "A", "AS", Nm("X", j - 1), ",",
               Nm("X", length),
               "FROM", "R", ",", Nm("S", j + 1),
               "WHERE", "R", ".", "B", "=", Nm("S", j + 1), ".", Nm("X", j), ")", ",">>)

BackwardW(j, length) ==
    <<Nm("W", j), "AS">>
    \o <<"(", "SELECT", Nm("X", j - 1), ",", Nm("X", length), ",",
         "ROW_NUMBER", "(", ")", "OVER", "(", "PARTITION", "BY", Nm("X", j - 1), ")",
         "AS", "RK", "FROM", Nm("J", j), ")", ",">>

BackwardS(j, length, threshold) ==
    <<Nm("S", j), "AS">>
    \o <<"(", "SELECT", Nm("X", j - 1), ",", Nm("X", length),
         "FROM", Nm("W", j), "WHERE", "RK", "<=", Num(threshold), ")">>

\* TQ1 windowed, joining backward: for j in reversed(range(1, length + 1))
prep_path_wind_query_backward(length, threshold) ==
    <<"WITH">>
    \o Flatten([n \in 1..length |->
           LET j == length + 1 - n IN
           BackwardJ(j, length) \o BackwardW(j, length) \o BackwardS(j, length, threshold)
           \o (IF j > 1 THEN <<",">> ELSE <<>>)])
    \o <<"SELECT", "X0", ",", Nm("X", length), "FROM", "S1",
         "LIMIT", Num(threshold), ";">>

\* (mutant) the stages are emitted for j in range(1, length + 1)
prep_neig_wind_query_ascending(length, threshold) ==
    <<"WITH">>
    \o Flatten([n \in 1..length |->
           LET j == n IN
           BackwardJ(j, length) \o BackwardW(j, length) \o BackwardS(j, length, threshold)
           \o <<",">>])
    \o <<"C", "AS", "(", "SELECT", "X0", ",", "COUNT", "(", "*", ")", "CNT",
         "FROM", "S1", "GROUP", "BY", "X0", ")", ",">>
    \o <<"S", "AS", "(", "SELECT", "X0", "FROM", "C", "WHERE", "CNT", ">=",
         Num(threshold), ")">>
    \o <<"SELECT", "X0", "FROM", "S", ";">>

\* TQ2 windowed, joining backward
prep_neig_wind_query_backward(length, threshold) ==
    <<"WITH">>
    \o Flatten([n \in 1..length |->
           LET j == length + 1 - n IN
           BackwardJ(j, length) \o BackwardW(j, length) \o BackwardS(j, length, threshold)
           \o <<",">>])
    \o <<"C", "AS", "(", "SELECT", "X0", ",", "COUNT", "(", "*", ")", "CNT",
         "FROM", "S1", "GROUP", "BY", "X0", ")", ",">>
    \o <<"S", "AS", "(", "SELECT", "X0", "FROM", "C", "WHERE", "CNT", ">=",
         Num(threshold), ")">>
    \o <<"SELECT", "X0", "FROM", "S", ";">>

\* TQ3 windowed, joining forward: for j in range(2, length + 1)
prep_conn_wind_query_forward(length, threshold) ==
    <<"WITH">>
    \o <<"S1", "AS">>
    \o <<"(", "SELECT", "DISTINCT", "A", "AS", "X0", ",", "B", "AS", "X1",
         "FROM", "R", ")", ",">>
    \o Flatten([n \in 1..(length - 1) |->
           LET j == n + 1 IN
           <<Nm("J", j), "AS">>
           \o <<"(", "SELECT", "DISTINCT">>
           \o Flatten([m \in 1..j |-> <<Nm("S", j - 1), ".", Nm("X", m - 1), ",">>])
           \o <<"R", ".", "B", "AS", Nm("X", j)>>
           \o <<"FROM", Nm("S", j - 1), ",", "R">>
           \o <<"WHERE", Nm("S", j - 1), ".", Nm("X", j - 1), "=", "R", ".", "A", ")", ",">>
           \o <<Nm("W", j), "AS">>
           \o <<"(", "SELECT">>
           \o Flatten([m \in 1..(j + 1) |-> <<Nm("X", m - 1), ",">>])
           \o <<"ROW_NUMBER", "(", ")", "OVER", "(", "PARTITION", "BY", "X0", ",",
                Nm("X", j), ")", "AS", "RK">>
           \o <<"FROM", Nm("J", j), ")", ",">>
           \o <<Nm("S", j), "AS">>
           \o <<"(", "SELECT">>
           \o Flatten([m \in 1..(j + 1) |->
                  (IF m > 1 THEN <<",">> ELSE <<>>) \o <<Nm("X", m - 1)>>])
           \o <<"FROM", Nm("W", j), "WHERE", "RK", "<=", Num(threshold), ")">>
           \o (IF j < length THEN <<",">> ELSE <<>>)])
    \o <<"SELECT", "X0", ",", Nm("X", length), "FROM", Nm("S", length),
         "GROUP", "BY", "X0", ",", Nm("X", length),
         "HAVING", "COUNT", "(", "*", ")", ">=", Num(threshold)>>

\* The classes and methods of the dispatch table query_constructors.
QueryKinds == {"TQ1", "TQ2", "TQ3"}
QueryMethods == {"naive", "windowed"}

\* query_constructors[kind][method](length, threshold)
query_constructors(kind, method, length, threshold) ==
    CASE kind = "TQ1" /\ method = "naive" -> prep_path_naiv_query(length, threshold)
      [] kind = "TQ1" /\ method = "windowed" -> prep_path_wind_query_backward(length, threshold)
      [] kind = "TQ2" /\ method = "naive" -> prep_neig_naiv_query(length, threshold)
      [] kind = "TQ2" /\ method = "windowed" -> prep_neig_wind_query_backward(length, threshold)
      [] kind = "TQ3" /\ method = "naive" -> prep_conn_naiv_query(length, threshold)
      [] kind = "TQ3" /\ method = "windowed" -> prep_conn_wind_query_forward(length, threshold)

\* The lookup query_constructors[kind][method] raises KeyError otherwise.
HasConstructor(query) == query.kind \in QueryKinds /\ query.method \in QueryMethods

\* prepare_query: length = k + 1; the text written to query_script_file.
query_length(query) == query.k + 1

prepare_query(query, timeout) ==
    <<"SET", "max_parallel_workers_per_gather", "=", "0", ";">>
    \o (IF timeout # 0 THEN <<"SET", "statement_timeout", "=", Num(timeout), ";">> ELSE <<>>)
    \o <<"\\timing">>
    \o query_constructors(query.kind, query.method, query_length(query), query.threshold)

----------------------------------------------------------------------------
(* What the database answers to a query text, for the statements of the    *)
(* TQ1 queries: [WITH name AS (select), ...] select, where a select has a   *)
(* list of columns (or ROW_NUMBER() OVER (PARTITION BY ...)), FROM, WHERE   *)
(* and LIMIT. A table is its column names and its set of rows; no select    *)
(* of these queries yields the same row twice unless it is DISTINCT. The    *)
(* order of ROW_NUMBER() inside a partition and the rows LIMIT keeps are    *)
(* the engine's choice: a select has a set of possible answers.             *)

MinOf(S) == CHOOSE p \in S : \A q \in S : p <= q

IndexOf(seq, e) == CHOOSE i \in 1..Len(seq) : seq[i] = e

Depth(toks, i) ==
    Cardinality({p \in 1..(i - 1) : toks[p] = "("})
    - Cardinality({p \in 1..(i - 1) : toks[p] = ")"})

\* Where `word` stands outside every parenthesis.
TopPositions(toks, word) == {i \in 1..Len(toks) : toks[i] = word /\ Depth(toks, i) = 0}

FirstTop(toks, word) ==
    IF TopPositions(toks, word) = {} THEN 0 ELSE MinOf(TopPositions(toks, word))

RECURSIVE SplitTop(_, _)
SplitTop(toks, word) ==
    IF TopPositions(toks, word) = {} THEN <<toks>>
    ELSE LET p == MinOf(TopPositions(toks, word)) IN
         <<SubSeq(toks, 1, p - 1)>> \o SplitTop(SubSeq(toks, p + 1, Len(toks)), word)

NumberTokens == {ToString(n) : n \in 0..MaxThreshold}
NumberOf(tok) == CHOOSE n \in 0..MaxThreshold : ToString(n) = tok

\* The tables of a FROM clause: 'R AS R0' or 'S2'.
FromTables(clause, env) ==
    LET refs == SplitTop(clause, ",") IN
    [j \in 1..Len(refs) |->
        [alias |-> refs[j][Len(refs[j])], table |-> env[refs[j][1]]]]

\* One row of each table of the FROM clause.
JointRows(tables) ==
    LET all == UNION {tables[j].table.rows : j \in 1..Len(tables)} IN
    {f \in [1..Len(tables) -> all] : \A j \in 1..Len(tables) : f[j] \in tables[j].table.rows}

\* The value of 'alias.column' or 'column' in a joint row.
ColumnValue(ref, tables, f) ==
    LET col == ref[Len(ref)]
        j == IF Len(ref) = 3
             THEN CHOOSE i \in 1..Len(tables) : tables[i].alias = ref[1]
             ELSE CHOOSE i \in 1..Len(tables) :
                      \E c \in 1..Len(tables[i].table.cols) : tables[i].table.cols[c] = col
    IN f[j][IndexOf(tables[j].table.cols, col)]

OperandValue(operand, tables, f) ==
    IF Len(operand) = 1 /\ operand[1] \in NumberTokens
    THEN NumberOf(operand[1])
    ELSE ColumnValue(operand, tables, f)

\* 'a = b', 'a <= n'
ConditionHolds(cond, tables, f) ==
    LET p == CHOOSE i \in 1..Len(cond) : cond[i] \in {"=", "<=", ">="}
        l == OperandValue(SubSeq(cond, 1, p - 1), tables, f)
        r == OperandValue(SubSeq(cond, p + 1, Len(cond)), tables, f)
    IN CASE cond[p] = "=" -> l = r
         [] cond[p] = "<=" -> l <= r
         [] cond[p] = ">=" -> l >= r

IsRowNumber(item) == item[1] = "ROW_NUMBER"

\* The name of the column an item of the select list yields.
ItemName(item) == item[Len(item)]

\* The column reference of an item 'ref' or 'ref AS name'.
ItemRef(item) ==
    IF Len(item) >= 3 /\ item[Len(item) - 1] = "AS"
    THEN SubSeq(item, 1, Len(item) - 2) ELSE item

\* The columns of PARTITION BY in 'ROW_NUMBER() OVER (PARTITION BY a, b) AS RK'.
PartitionRefs(item) ==
    LET by == IndexOf(item, "BY") IN
    SplitTop(SubSeq(item, by + 1, Len(item) - 3), ",")

\* Every numbering 1, 2, ... of the rows of each partition.
RECURSIVE Rankings(_, _)
Rankings(F, key) ==
    IF F = {} THEN {[f \in {} |-> 0]}
    ELSE LET f0 == CHOOSE f \in F : TRUE
             P == {g \in F : key[g] = key[f0]}
             numberings == {b \in [P -> 1..Cardinality(P)] :
                               \A g, h \in P : g # h => b[g] # b[h]}
         IN {b @@ r : b \in numberings, r \in Rankings(F \ P, key)}

\* The rows LIMIT n may keep.
Limited(rows, n) ==
    IF Cardinality(rows) <= n THEN {rows}
    ELSE {keep \in SUBSET rows : Cardinality(keep) = n}

\* The possible answers of a select, given the tables env names.
EvalSelect(sel, env) ==
    LET from == FirstTop(sel, "FROM")
        where == FirstTop(sel, "WHERE")
        limit == FirstTop(sel, "LIMIT")
        first == IF sel[2] = "DISTINCT" THEN 3 ELSE 2
        items == SplitTop(SubSeq(sel, first, from - 1), ",")
        fromEnd == IF where > 0 THEN where - 1 ELSE IF limit > 0 THEN limit - 1 ELSE Len(sel)
        whereEnd == IF limit > 0 THEN limit - 1 ELSE Len(sel)
        tables == FromTables(SubSeq(sel, from + 1, fromEnd), env)
        conds == IF where > 0 THEN SplitTop(SubSeq(sel, where + 1, whereEnd), "AND") ELSE <<>>
        F == {f \in JointRows(tables) :
                 \A c \in 1..Len(conds) : ConditionHolds(conds[c], tables, f)}
        windows == {w \in 1..Len(items) : IsRowNumber(items[w])}
        key == [f \in F |->
                  IF windows = {} THEN <<>>
                  ELSE LET refs == PartitionRefs(items[MinOf(windows)]) IN
                       [c \in 1..Len(refs) |-> ColumnValue(refs[c], tables, f)]]
        rankings == IF windows = {} THEN {[f \in F |-> 0]} ELSE Rankings(F, key)
        Row(f, rk) == [c \in 1..Len(items) |->
                         IF IsRowNumber(items[c]) THEN rk[f]
                         ELSE ColumnValue(ItemRef(items[c]), tables, f)]
        cols == [c \in 1..Len(items) |-> ItemName(items[c])]
    IN UNION { {[cols |-> cols, rows |-> kept] :
                   kept \in IF limit > 0
                            THEN Limited({Row(f, rk) : f \in F}, NumberOf(sel[limit + 1]))
                            ELSE {{Row(f, rk) : f \in F}}}
               : rk \in rankings }

\* The stages 'name AS ( select )' of a WITH list, in order.
RECURSIVE EvalStages(_, _)
EvalStages(stages, envs) ==
    IF Len(stages) = 0 THEN envs
    ELSE LET stage == Head(stages)
             body == SubSeq(stage, 4, Len(stage) - 1)
         IN EvalStages(Tail(stages),
                       UNION {{(stage[1] :> t) @@ env : t \in EvalSelect(body, env)}
                                 : env \in envs})

\* The possible answers (sets of rows) of a statement over the edge relation R.
EvalStatement(stmt, rel) ==
    LET base == {("R" :> [cols |-> <<"A", "B">>, rows |-> rel])}
        main == FirstTop(stmt, "SELECT")
        envs == IF stmt[1] = "WITH"
                THEN EvalStages(SplitTop(SubSeq(stmt, 2, main - 1), ","), base)
                ELSE base
    IN {t.rows : t \in UNION {EvalSelect(SubSeq(stmt, main, Len(stmt)), env) : env \in envs}}

\* The query of a query script: psql runs the statements that ';' separates, and at
\* the end of the file the statement that no ';' ends; '\timing' is psql's own.
ScriptQuery(script) ==
    LET parts == SplitTop(script, ";")
        last == IF Len(parts[Len(parts)]) = 0 THEN parts[Len(parts) - 1] ELSE parts[Len(parts)]
    IN IF last[1] = "\\timing" THEN Tail(last) ELSE last

----------------------------------------------------------------------------
(* The report column of a query and the report header.                     *)

\* method[:4]
Prefix4(method) ==
    CASE method = "naive" -> "naiv"
      [] method = "windowed" -> "wind"
      [] method = "hybrid" -> "hybr"

\* (mutant) the column name carries the threshold too
query_descr_threshold(query) ==
    query.kind \o "-" \o Prefix4(query.method) \o "-K" \o ToString(query.k)
    \o "-T" \o ToString(query.threshold)

\* query_descr: '%s-%s-K%i' % (kind, method[:4], k)
query_descr(query) == query.kind \o "-" \o Prefix4(query.method) \o "-K" \o ToString(query.k)

_header_base == <<"kind", "n", "m0", "m", "indexed", "runs", "timeout">>

\* make_report_header: _header_base + tuple(map(query_descr, queries))
make_report_header(qs) == _header_base \o [j \in 1..Len(qs) |-> query_descr(qs[j])]

\* The value csv.DictWriter writes for a column that the line has no key for.
Restval == -2

\* (mutant) the cells of the queries are read one column too early
writerow_shifted(header, line, d) ==
    [d |-> d,
     cells |-> [j \in 1..(Len(header) - Len(_header_base)) |->
                  LET col == header[Len(_header_base) + j - 1] IN
                  IF col \in DOMAIN line THEN line[col] ELSE Restval]]

\* report.writerow(report_line): one cell per column of the header, read from the
\* line by the column's name. The cells of the _header_base columns describe the
\* dataset; the row keeps the dataset's position in the batch for them.
writerow(header, line, d) ==
    [d |-> d,
     cells |-> [j \in 1..(Len(header) - Len(_header_base)) |->
                  LET col == header[Len(_header_base) + j] IN
                  IF col \in DOMAIN line THEN line[col] ELSE Restval]]

----------------------------------------------------------------------------
(* The captured output of a command (postgres, lines 295-311).             *)

PSQL_TIMEOUT_MSG == "ERROR:  canceling statement due to statement timeout"

\* Diagnostic lines a command can print beside the timing line.
OtherErrorLine == "ERROR:  relation \"r\" does not exist"
FatalLine == "FATAL:  terminating connection due to administrator command"
DiagnosticLines == {PSQL_TIMEOUT_MSG, OtherErrorLine, FatalLine}

\* needle in line, for the needles the program searches for
LineContains(line, needle) ==
    CASE needle = PSQL_TIMEOUT_MSG -> line = PSQL_TIMEOUT_MSG
      [] needle = "ERROR:" -> line \in {PSQL_TIMEOUT_MSG, OtherErrorLine}
      [] needle = "FATAL:" -> line = FatalLine

\* needle in output
In(needle, output) == \E line \in output.lines : LineContains(line, needle)

\* 'Time: 2,000 ms': the whole milliseconds and the decimal separator of the locale;
\* whole = 0 stands for an output without a timing line.
NoTimeLine == [whole |-> 0, sep |-> "."]
TimeLines == {[whole |-> w, sep |-> s] : w \in 1..MaxMs, s \in {".", ","}}

\* Outputs of dropdb, createdb and psql -f load-script: no timing line.
AdminOutputs == {[lines |-> ls, time |-> NoTimeLine] : ls \in SUBSET DiagnosticLines}

\* Outputs of psql -f query-script.
QueryOutputs == {[lines |-> ls, time |-> t] :
                    ls \in SUBSET DiagnosticLines, t \in TimeLines \cup {NoTimeLine}}

\* postgres: the condition under which it prints the output and calls exit(1)
postgres_exits(output, ignore_errors) ==
    /\ ~In(PSQL_TIMEOUT_MSG, output) /\ (In("ERROR:", output) \/ In("FATAL:", output))
    /\ ~ignore_errors

\* parse_psql_output: float(time.replace(',', '.')) raises ValueError when the text
\* after 'Time: ' is no number.
parse_raises(s) == ~In(PSQL_TIMEOUT_MSG, s) /\ s.time = NoTimeLine

parse_psql_output(s) ==
    IF In(PSQL_TIMEOUT_MSG, s) THEN TIMEOUT ELSE s.time.whole

----------------------------------------------------------------------------
(* run_query_experiment: the summary of the collected results.             *)

\* key=lambda x: x if x != 'TIMEOUT' else float('inf')
SortKey(x) == IF x # TIMEOUT THEN x ELSE Infinity

\* list.sort(key=...): a stable sort
RECURSIVE InsertSorted(_, _)
InsertSorted(sorted, x) ==
    IF Len(sorted) = 0 THEN <<x>>
    ELSE IF SortKey(x) < SortKey(Head(sorted)) THEN <<x>> \o sorted
    ELSE <<Head(sorted)>> \o InsertSorted(Tail(sorted), x)

RECURSIVE SortResults(_)
SortResults(rs) ==
    IF Len(rs) = 0 THEN <<>>
    ELSE InsertSorted(SortResults(SubSeq(rs, 1, Len(rs) - 1)), rs[Len(rs)])

\* (mutant) the lower of the two middle elements of a list of even length
MedianOfLower(sorted) == sorted[((Len(sorted) - 1) \div 2) + 1]

\* (mutant) the last element of the sorted list
MedianOfLast(sorted) == sorted[Len(sorted)]

\* results[len(results)//2] of a sorted list (TLA+ sequences start at 1)
MedianOf(sorted) == sorted[(Len(sorted) \div 2) + 1]

\* (mutant) the loop never breaks
BreaksLoopNever(rs, hard) == FALSE

\* (mutant) the loop breaks on a TIMEOUT whatever hard_timeout is
BreaksLoopAlways(rs, hard) == rs[Len(rs)] = TIMEOUT

\* if results[-1] == 'TIMEOUT' and hard_timeout == True: break
BreaksLoop(rs, hard) == rs[Len(rs)] = TIMEOUT /\ hard = TRUE

----------------------------------------------------------------------------
(* run_experiments(datas, queries, runs=..., hard_timeout=...).            *)

\* The kinds of data prepare_data supports, and one it does not.
SupportedKinds == {"ba", "full", "imdb"}
DataKinds == SupportedKinds \cup {"gnp"}

\* Query descriptors of the batches: a naive and a windowed query, a second
\* threshold for the first one, and descriptors query_constructors has no entry for.
BatchQueries ==
    { [kind |-> "TQ1", method |-> "naive", k |-> 1, threshold |-> 1],
      [kind |-> "TQ1", method |-> "naive", k |-> 1, threshold |-> 2],
      [kind |-> "TQ3", method |-> "windowed", k |-> 2, threshold |-> 1],
      [kind |-> "TQ4", method |-> "naive", k |-> 1, threshold |-> 1],
      [kind |-> "TQ2", method |-> "hybrid", k |-> 1, threshold |-> 1] }

SeqsUpTo(S, n) == UNION {[1..m -> S] : m \in 1..n}

\* Descriptors of the generated queries and edge relations R they are asked over.
GenQueries ==
    [kind : QueryKinds, method : QueryMethods, k : 1..MaxK, threshold : 1..MaxThreshold]
Relations ==
    {rel \in SUBSET ((1..MaxNode) \X (1..MaxNode)) : Cardinality(rel) <= MaxEdges}

VARIABLES
    ndatas,         \* len(datas)
    queries,        \* the query descriptors of the batch
    runs,           \* the runs parameter
    hard_timeout,   \* the hard_timeout parameter
    pc,             \* the statement the program is at
    di,             \* position in datas of the dataset of the loop, from 1
    qi,             \* position in queries of the query of the loop, from 1
    load_script,    \* load_script_file: the dataset whose load script it holds, 0: none
    loaded,         \* the database: the dataset whose load script ran on it, 0: none
    query_script,   \* query_script_file: its text
    results,        \* run_query_experiment: results
    result,         \* run_experiments: result
    report_line,    \* run_experiments: report_line, the keys of the queries
    report_buf,     \* report_f: what is written and not yet flushed
    report_disk,    \* the report file on disk
    \* History of the run, for stating the properties:
    executions,     \* query executions issued for the query of the loop
    outcomes,       \* what measure_query_run returned for the query of the loop, in order
    summaries,      \* what run_query_experiment returned for each dataset, in order
    setup,          \* what was done for the dataset of the loop, up to its first query
    after_timeout,  \* the commands issued since a query returned TIMEOUT
    prepared,       \* how many times prepare_data ran for each dataset
    queried,        \* <<dataset of the loop, dataset loaded>> of every query execution
    last_bad,       \* the last output had an ERROR/FATAL line other than PSQL_TIMEOUT_MSG
    bad_descr,      \* "data" / "query": the descriptor last prepared has no supported
                    \* kind / no entry in query_constructors; "none" otherwise
    \* A generated query asked over an edge relation:
    gen_pc,         \* "idle", "query", "script", "answered"
    gen_query,      \* the query descriptor
    gen_rel,        \* the rows of R
    gen_script,     \* the query script prepare_query wrote
    gen_answers     \* the answers the database may give to the query of the script

runner_vars == <<ndatas, queries, runs, hard_timeout, pc, di, qi, load_script, loaded,
                 query_script, results, result, report_line, report_buf, report_disk,
                 executions, outcomes, summaries, setup, after_timeout, prepared, queried,
                 last_bad, bad_descr>>

gen_vars == <<gen_pc, gen_query, gen_rel, gen_script, gen_answers>>

vars == <<runner_vars, gen_vars>>

NoFile == [header |-> <<>>, rows |-> <<>>]
NoLine == [col \in {} |-> 0]

\* What the file on disk holds once what is written reaches it.
Flushed(disk, buf) ==
    [header |-> disk.header \o buf.header, rows |-> disk.rows \o buf.rows]

\* (mutant) no flush after the row: it stays in the buffer of report_f
flush_missing(disk, buf) == [disk |-> disk, buf |-> buf]

\* report_f.flush()
flush(disk, buf) == [disk |-> Flushed(disk, buf), buf |-> NoFile]

\* report_f is closed when the interpreter ends or run_experiments returns
close(disk, buf) == [disk |-> Flushed(disk, buf), buf |-> NoFile]

\* (mutant) load_data does not drop the database
load_data_next_no_drop(done) ==
    CASE done = "prepare" -> "createdb"
      [] done = "dropdb" -> "createdb"
      [] done = "createdb" -> "load"
      [] done = "load" -> "prepare_query"

\* run_experiments calls load_data after prepare_data, and load_data issues dropdb,
\* createdb and psql -f load_script_file; the loop over the queries follows.
load_data_next(done) ==
    CASE done = "prepare" -> "dropdb"
      [] done = "dropdb" -> "createdb"
      [] done = "createdb" -> "load"
      [] done = "load" -> "prepare_query"

Recovery == <<"dropdb", "createdb", "load">>

\* (mutant) prepare_data goes on whatever the kind
prepare_data_exits_never(kind) == FALSE

\* prepare_data (through descr_data) reaches its else branch, exit(1)
prepare_data_exits(kind) == kind \notin SupportedKinds

\* The history after a command is issued.
Issued(history, cmd) ==
    IF Len(history) > 0 /\ Len(history) < 1 + Len(Recovery)
    THEN Append(history, cmd) ELSE history

\* The history after a query returned TIMEOUT: it starts again, unless it holds
\* commands that were not the recovery.
TimedOut(history) ==
    IF Len(history) = 0 \/ history = <<"TIMEOUT">> \o Recovery
    THEN <<"TIMEOUT">> ELSE history

SetupIssued(history, cmd) ==
    IF Len(history) > 0 /\ history[Len(history)] = "query" THEN history
    ELSE Append(history, cmd)

\* An ERROR or FATAL line that is not the timeout cancellation message.
OtherError(output) == OtherErrorLine \in output.lines \/ FatalLine \in output.lines

RunIdle ==
    /\ pc = "idle"
    /\ di = 0 /\ qi = 0
    /\ load_script = 0 /\ loaded = 0
    /\ query_script = <<>>
    /\ results = <<>> /\ result = 0
    /\ report_line = NoLine
    /\ report_buf = NoFile /\ report_disk = NoFile
    /\ executions = 0
    /\ outcomes = <<>> /\ setup = <<>> /\ after_timeout = <<>>
    /\ summaries = [d \in 1..ndatas |-> <<>>]
    /\ prepared = [d \in 1..ndatas |-> 0]
    /\ queried = {}
    /\ last_bad = FALSE
    /\ bad_descr = "none"

GenIdle ==
    /\ gen_pc = "idle"
    /\ gen_query = [kind |-> "TQ1", method |-> "naive", k |-> 1, threshold |-> 1]
    /\ gen_rel = {}
    /\ gen_script = <<>>
    /\ gen_answers = {}

\* run_experiments is called with a batch.
RunInit ==
    /\ ndatas \in 1..MaxData
    /\ queries \in SeqsUpTo(BatchQueries, MaxQueries)
    /\ runs \in 1..MaxRuns
    /\ hard_timeout \in BOOLEAN
    /\ ndatas * Len(queries) * runs <= MaxWork
    /\ RunIdle
    /\ GenIdle

\* exit(1), or an exception nobody catches: the interpreter ends and closes report_f,
\* which flushes it.
Halt ==
    /\ pc' = "halted"
    /\ report_disk' = close(report_disk, report_buf).disk
    /\ report_buf' = close(report_disk, report_buf).buf

\* Lines 716-734: open the report, write the header, enter the loop over datas.
Start ==
    /\ pc = "idle" /\ gen_pc = "idle"
    /\ report_buf' = [header |-> make_report_header(queries), rows |-> <<>>]
    /\ di' = 1
    /\ pc' = "prepare_data"
    /\ UNCHANGED bad_descr
    /\ UNCHANGED <<ndatas, queries, runs, hard_timeout, qi, load_script, loaded, query_script,
                   results, result, report_line, report_disk, executions, outcomes, summaries,
                   setup, after_timeout, prepared, queried, last_bad>>
    /\ UNCHANGED gen_vars

\* Line 735, prepare_data(data): writes the load script of the dataset, or exit(1)
\* for a kind it does not support.
PrepareData ==
    /\ pc = "prepare_data"
    /\ \E kind \in DataKinds :
         /\ bad_descr' = IF kind \in SupportedKinds THEN "none" ELSE "data"
         /\ IF ~prepare_data_exits(kind)
            THEN /\ load_script' = di
                 /\ prepared' = [prepared EXCEPT ![di] = @ + 1]
                 /\ setup' = <<"prepare">>
                 /\ pc' = load_data_next("prepare")
                 /\ UNCHANGED <<report_buf, report_disk>>
            ELSE /\ Halt
                 /\ setup' = <<>>
                 /\ UNCHANGED <<load_script, prepared>>
    /\ UNCHANGED <<ndatas, queries, runs, hard_timeout, di, qi, loaded, query_script, results,
                   result, report_line, executions, outcomes, summaries, after_timeout,
                   queried, last_bad>>
    /\ UNCHANGED gen_vars

\* One command of load_data through postgres: exit(1) or go on.
AdminCommand(cmd, output) ==
    /\ setup' = SetupIssued(setup, cmd)
    /\ after_timeout' = Issued(after_timeout, cmd)
    /\ last_bad' = OtherError(output)
    /\ IF postgres_exits(output, FALSE)
       THEN Halt
       ELSE pc' = load_data_next(cmd) /\ UNCHANGED <<report_buf, report_disk>>

\* Line 324: dropdb --force --if-exists
DropDb ==
    /\ pc = "dropdb"
    /\ \E output \in AdminOutputs :
         /\ AdminCommand("dropdb", output)
         /\ loaded' = IF postgres_exits(output, FALSE) THEN loaded ELSE 0
    /\ UNCHANGED bad_descr
    /\ UNCHANGED <<ndatas, queries, runs, hard_timeout, di, qi, load_script, query_script,
                   results, result, report_line, executions, outcomes, summaries, prepared,
                   queried>>
    /\ UNCHANGED gen_vars

\* Line 326: createdb
CreateDb ==
    /\ pc = "createdb"
    /\ \E output \in AdminOutputs : AdminCommand("createdb", output)
    /\ UNCHANGED bad_descr
    /\ UNCHANGED <<ndatas, queries, runs, hard_timeout, di, qi, load_script, loaded,
                   query_script, results, result, report_line, executions, outcomes,
                   summaries, prepared, queried>>
    /\ UNCHANGED gen_vars

\* Line 328: psql -q -f load_script_file; then lines 737-738: start_report_line and
\* the loop over queries.
LoadScript ==
    /\ pc = "load"
    /\ \E output \in AdminOutputs :
         /\ AdminCommand("load", output)
         /\ IF postgres_exits(output, FALSE)
            THEN UNCHANGED <<loaded, report_line, qi>>
            ELSE /\ loaded' = load_script
                 /\ report_line' = NoLine
                 /\ qi' = 1
    /\ UNCHANGED bad_descr
    /\ UNCHANGED <<ndatas, queries, runs, hard_timeout, di, load_script, query_script,
                   results, result, executions, outcomes, summaries, prepared, queried>>
    /\ UNCHANGED gen_vars

\* Line 739, prepare_query(query, timeout), and lines 652-655 of run_query_experiment.
PrepareQuery ==
    /\ pc = "prepare_query"
    /\ IF HasConstructor(queries[qi])
       THEN /\ query_script' = prepare_query(queries[qi], default_timeout)
            /\ results' = <<>>
            /\ outcomes' = <<>>
            /\ executions' = 0
            /\ pc' = "measure"
            /\ UNCHANGED <<report_buf, report_disk>>
       ELSE /\ Halt
            /\ outcomes' = <<>>
            /\ executions' = 0
            /\ UNCHANGED <<query_script, results>>
    /\ bad_descr' = IF queries[qi].kind \in QueryKinds /\ queries[qi].method \in QueryMethods
                    THEN "none" ELSE "query"
    /\ UNCHANGED <<ndatas, queries, runs, hard_timeout, di, qi, load_script, loaded, result,
                   report_line, summaries, setup, after_timeout, prepared, queried, last_bad>>
    /\ UNCHANGED gen_vars

\* Lines 659-662 and 741-743 for the collected results rs: the summary, the cell of
\* the query, and after the last query the row of the dataset, flushed.
FinishQuery(rs) ==
    LET sorted == SortResults(rs)
        line == (query_descr(queries[qi]) :> MedianOf(sorted)) @@ report_line
    IN  /\ results' = sorted
        /\ result' = MedianOf(sorted)
        /\ summaries' = [summaries EXCEPT ![di] = Append(@, MedianOf(sorted))]
        /\ report_line' = line
        /\ IF qi < Len(queries)
           THEN /\ qi' = qi + 1
                /\ pc' = "prepare_query"
                /\ UNCHANGED <<di, report_buf, report_disk>>
           ELSE LET written == [report_buf EXCEPT !.rows =
                                   Append(@, writerow(make_report_header(queries), line, di))]
                    file == flush(report_disk, written)
                IN  /\ qi' = qi
                    /\ IF di < ndatas
                       THEN /\ di' = di + 1
                            /\ pc' = "prepare_data"
                            /\ report_disk' = file.disk
                            /\ report_buf' = file.buf
                       ELSE /\ di' = di
                            /\ pc' = "done"
                            /\ report_disk' = close(file.disk, file.buf).disk
                            /\ report_buf' = close(file.disk, file.buf).buf

\* Lines 655-658, one pass of the loop: measure_query_run (psql -f query_script_file,
\* parse_psql_output), append, break on a TIMEOUT under hard_timeout.
MeasureQueryRun ==
    /\ pc = "measure"
    /\ \E output \in QueryOutputs :
         /\ setup' = SetupIssued(setup, "query")
         /\ executions' = executions + 1
         /\ queried' = queried \cup {<<di, loaded>>}
         /\ last_bad' = OtherError(output)
         /\ IF postgres_exits(output, FALSE) \/ parse_raises(output)
            THEN /\ Halt
                 /\ after_timeout' = Issued(after_timeout, "query")
                 /\ UNCHANGED <<di, qi, results, result, report_line, outcomes, summaries>>
            ELSE LET time == parse_psql_output(output)
                     rs == Append(results, time)
                 IN  /\ outcomes' = Append(outcomes, time)
                     /\ after_timeout' =
                          IF time = TIMEOUT
                          THEN TimedOut(Issued(after_timeout, "query"))
                          ELSE Issued(after_timeout, "query")
                     /\ IF Len(rs) < runs /\ ~BreaksLoop(rs, hard_timeout)
                        THEN /\ results' = rs
                             /\ pc' = "measure"
                             /\ UNCHANGED <<di, qi, result, report_line, summaries,
                                            report_buf, report_disk>>
                        ELSE FinishQuery(rs)
    /\ UNCHANGED bad_descr
    /\ UNCHANGED <<ndatas, queries, runs, hard_timeout, load_script, loaded, query_script,
                   prepared>>
    /\ UNCHANGED gen_vars

\* The process is killed: what report_f had not flushed is lost.
Crash ==
    /\ pc \notin {"idle", "done", "halted", "crashed"}
    /\ pc' = "crashed"
    /\ report_buf' = NoFile
    /\ UNCHANGED bad_descr
    /\ UNCHANGED <<ndatas, queries, runs, hard_timeout, di, qi, load_script, loaded,
                   query_script, results, result, report_line, report_disk, executions,
                   outcomes, summaries, setup, after_timeout, prepared, queried, last_bad>>
    /\ UNCHANGED gen_vars

Init == RunInit

Next ==
    \/ Start
    \/ PrepareData
    \/ DropDb
    \/ CreateDb
    \/ LoadScript
    \/ PrepareQuery
    \/ MeasureQueryRun
    \/ Crash

Spec == Init /\ [][Next]_vars

----------------------------------------------------------------------------
(* A query descriptor, its script, and the answer over an edge relation.   *)

GenInit ==
    /\ ndatas = 1 /\ queries = <<>> /\ runs = 1 /\ hard_timeout = FALSE
    /\ RunIdle
    /\ gen_pc = "query"
    /\ gen_query \in GenQueries
    /\ gen_rel \in Relations
    /\ gen_script = <<>>
    /\ gen_answers = {}

\* prepare_query(query, timeout) writes the query script.
GenPrepare ==
    /\ gen_pc = "query"
    /\ gen_script' = prepare_query(gen_query, default_timeout)
    /\ gen_pc' = "script"
    /\ UNCHANGED <<gen_query, gen_rel, gen_answers>>
    /\ UNCHANGED runner_vars

\* psql runs the script on a database whose table R holds gen_rel.
GenAnswer ==
    /\ gen_pc = "script"
    /\ gen_query.kind = "TQ1"
    /\ gen_answers' = EvalStatement(ScriptQuery(gen_script), gen_rel)
    /\ gen_pc' = "answered"
    /\ UNCHANGED <<gen_query, gen_rel, gen_script>>
    /\ UNCHANGED runner_vars

GenNext ==
    \/ GenPrepare
    \/ GenAnswer

SpecGen == GenInit /\ [][GenNext]_vars

----------------------------------------------------------------------------
(* Properties.                                                             *)

IsPrefix(a, b) == Len(a) <= Len(b) /\ SubSeq(b, 1, Len(a)) = a

\* run_query_experiment has returned for the query whose outcomes are kept.
PairFinished == pc \in {"prepare_query", "prepare_data", "done"} /\ Len(outcomes) > 0

\* How many elements of seq satisfy: key below / not above the key of v.
Below(seq, v) == Cardinality({j \in 1..Len(seq) : SortKey(seq[j]) < SortKey(v)})
NotAbove(seq, v) == Cardinality({j \in 1..Len(seq) : SortKey(seq[j]) <= SortKey(v)})

\* v stands at 0-based position p of seq sorted ascending, TIMEOUT above every duration.
IsAtSortedPosition(seq, v, p) ==
    /\ \E j \in 1..Len(seq) : seq[j] = v
    /\ Below(seq, v) <= p /\ p < NotAbove(seq, v)

\* C1 (as claimed): after a query execution returned TIMEOUT, the commands issued next
\* are dropdb, createdb, load-script, in that order, before any other query execution.
C1_RecoveryAfterTimeout == IsPrefix(after_timeout, <<"TIMEOUT">> \o Recovery)

\* C2 (as claimed): the summary of n collected results is the element at 0-based
\* position (n-1) div 2 of the sorted results, the lower of the two middle ones.
C2_LowerMedian ==
    PairFinished => IsAtSortedPosition(outcomes, result, (Len(outcomes) - 1) \div 2)

\* C2 (amended): the summary of n collected results is the element at 0-based position
\* n div 2 of the results sorted ascending with TIMEOUT above every duration: the middle
\* element for odd n, the upper of the two middle elements for even n.
C2_UpperMedian ==
    PairFinished => IsAtSortedPosition(outcomes, result, Len(outcomes) \div 2)

\* Two collected results (the list cut short by hard_timeout), a duration and a TIMEOUT:
\* the summary is the TIMEOUT.
C2_Witness ==
    /\ PairFinished /\ hard_timeout /\ runs = 3
    /\ outcomes = <<1, TIMEOUT>> /\ result = TIMEOUT

\* C3: under hard_timeout no query execution is issued for a pair after one of its runs
\* returned TIMEOUT, and a TIMEOUT on the first run makes the summary TIMEOUT.
C3_HardTimeoutStops ==
    hard_timeout =>
        /\ \A j \in 1..Len(outcomes) :
               outcomes[j] = TIMEOUT => j = Len(outcomes) /\ executions = j
        /\ PairFinished /\ outcomes[1] = TIMEOUT => result = TIMEOUT

C3_Witness ==
    /\ hard_timeout /\ runs = 3 /\ PairFinished
    /\ outcomes = <<TIMEOUT>> /\ executions = 1 /\ result = TIMEOUT

\* C4 (as claimed): an output with an ERROR or FATAL line that is not the timeout
\* cancellation message halts the run, also when the timeout message is there too.
C4_OtherErrorHalts == last_bad => pc = "halted"

\* The pairs of vertices a path of n edges of rel joins.
RECURSIVE PathPairs(_, _)
PathPairs(rel, n) ==
    IF n = 1 THEN rel
    ELSE {<<x[1][1], x[2][2]>> :
            x \in {y \in PathPairs(rel, n - 1) \X rel : y[1][2] = y[2][1]}}

\* The answers the database may give to the query prepare_query writes for `query`.
AnswersOf(query, rel) ==
    EvalStatement(ScriptQuery(prepare_query(query, default_timeout)), rel)

OtherMethod(query) ==
    [query EXCEPT !.method = IF query.method = "naive" THEN "windowed" ELSE "naive"]

\* C5 (as claimed): for k = 1 and a threshold above the size of the result, the naive
\* and the windowed TQ1 query have the same answer, the direct edges: over
\* {(1,2),(2,3)} the pairs (1,2) and (2,3).
C5_DirectEdges ==
    (/\ gen_pc = "answered" /\ gen_query.kind = "TQ1" /\ gen_query.k = 1
     /\ gen_rel = {<<1, 2>>, <<2, 3>>} /\ gen_query.threshold > Cardinality(gen_rel))
    => /\ gen_answers = AnswersOf(OtherMethod(gen_query), gen_rel)
       /\ gen_answers = {{<<1, 2>>, <<2, 3>>}}

\* C5 (amended): for k = 1 and a threshold above the size of the result, the naive and
\* the windowed TQ1 query have the same answer, the pairs joined by a path of two
\* edges (k joins, k + 1 edges): over {(1,2),(2,3)} the one pair (1,3).
C5_TwoEdgePaths ==
    (/\ gen_pc = "answered" /\ gen_query.kind = "TQ1" /\ gen_query.k = 1
     /\ gen_query.threshold > Cardinality(PathPairs(gen_rel, 2)))
    => /\ gen_answers = AnswersOf(OtherMethod(gen_query), gen_rel)
       /\ gen_answers = {PathPairs(gen_rel, 2)}
       /\ gen_rel = {<<1, 2>>, <<2, 3>>} => gen_answers = {{<<1, 3>>}}

C5_Witness ==
    /\ gen_pc = "answered" /\ gen_query.kind = "TQ1" /\ gen_query.method = "windowed"
    /\ gen_query.k = 1 /\ gen_query.threshold = 3
    /\ gen_rel = {<<1, 2>>, <<2, 3>>}
    /\ gen_answers = {{<<1, 3>>}}

\* C6: before the first query execution on a dataset, prepare_data ran for it once and
\* then dropdb, createdb and the load script were issued in that order; every query
\* execution finds the database loaded with the dataset of the loop.
C6_LoadedBeforeFirstQuery ==
    /\ IsPrefix(setup, <<"prepare", "dropdb", "createdb", "load", "query">>)
    /\ \A p \in queried : p[2] = p[1]
    /\ \A d \in 1..ndatas :
          /\ prepared[d] <= 1
          /\ (\E p \in queried : p[1] = d) => prepared[d] = 1
          /\ pc = "done" => prepared[d] = 1

C6_Witness ==
    /\ ndatas = 2 /\ di = 2
    /\ queried = {<<1, 1>>, <<2, 2>>}
    /\ setup = <<"prepare", "dropdb", "createdb", "load", "query">>
    /\ prepared = [d \in 1..2 |-> 1]

\* The descriptors differ pairwise in class, strategy or k.
DistinctColumns(qs) ==
    \A a, b \in 1..Len(qs) :
        a # b => <<qs[a].kind, qs[a].method, qs[a].k>> # <<qs[b].kind, qs[b].method, qs[b].k>>

Durations == 1..MaxMs

\* C7: when run_experiments returns, the report holds the header and one row per
\* dataset, in batch order; given distinct columns, a row has one cell per query, in
\* the order of the queries, and the cell is the summary of that query on that dataset,
\* a duration or TIMEOUT.
C7_ReportShape ==
    (pc = "done" /\ DistinctColumns(queries)) =>
        /\ Len(report_disk.header) = Len(_header_base) + Len(queries)
        /\ \A j \in 1..Len(queries) :
               report_disk.header[Len(_header_base) + j] = query_descr(queries[j])
        /\ Len(report_disk.rows) = ndatas
        /\ \A d \in 1..ndatas :
               /\ report_disk.rows[d].d = d
               /\ Len(report_disk.rows[d].cells) = Len(queries)
               /\ \A j \in 1..Len(queries) :
                      /\ report_disk.rows[d].cells[j] = summaries[d][j]
                      /\ report_disk.rows[d].cells[j] \in Durations \cup {TIMEOUT}

C7_Witness ==
    /\ pc = "done" /\ ndatas = 2 /\ Len(queries) = 2 /\ DistinctColumns(queries)
    /\ Len(report_disk.rows) = 2
    /\ report_disk.rows[1].cells = <<TIMEOUT, 2>>
    /\ report_disk.rows[2].cells = <<1, TIMEOUT>>

\* C8: the rows on disk are the rows of the datasets whose queries have all finished,
\* in batch order; the row of a dataset is on disk before the next one is prepared; a
\* run that ends while dataset i is in the loop leaves the rows of the datasets before i
\* and no row for dataset i.
C8_RowsPersisted ==
    LET finished == {d \in 1..ndatas : Len(summaries[d]) = Len(queries)} IN
    /\ Len(report_disk.rows) = Cardinality(finished)
    /\ \A j \in 1..Len(report_disk.rows) :
          /\ report_disk.rows[j].d = j
          /\ j \in finished
    /\ \A d \in 1..ndatas : prepared[d] > 0 => Len(report_disk.rows) >= d - 1
    /\ (pc \in {"halted", "crashed"} /\ Len(summaries[di]) < Len(queries))
          => Len(report_disk.rows) = di - 1

C8_Witness ==
    /\ pc = "crashed" /\ di = 2
    /\ <<2, 2>> \in queried
    /\ Len(summaries[2]) < Len(queries)
    /\ Len(report_disk.rows) = 1 /\ report_disk.rows[1].d = 1

Occurrences(seq, v) == Cardinality({j \in 1..Len(seq) : seq[j] = v})

\* C9: a pair gets at most `runs` query executions; without hard_timeout it gets exactly
\* `runs`, and every outcome, TIMEOUT included, is an element of the results that are
\* reduced to the summary.
C9_RunCount ==
    /\ executions <= runs
    /\ Len(outcomes) <= executions
    /\ pc = "measure" => results = outcomes
    /\ PairFinished =>
          /\ ~hard_timeout => executions = runs /\ Len(outcomes) = runs
          /\ Len(results) = Len(outcomes)
          /\ \A v \in Durations \cup {TIMEOUT} :
                 Occurrences(results, v) = Occurrences(outcomes, v)

C9_Witness ==
    /\ ~hard_timeout /\ runs = 3 /\ PairFinished
    /\ outcomes = <<TIMEOUT, 1, TIMEOUT>>
    /\ results = <<1, TIMEOUT, TIMEOUT>>
    /\ executions = 3

\* C10 (as claimed): the text of each of the six default generators ends with ';', so the
\* query script ends with a terminated query.
C10_Terminated ==
    gen_pc \in {"script", "answered"} => gen_script[Len(gen_script)] = ";"


----------------------------------------------------------------------------
\* C11: a descriptor with an unsupported value halts the run at once. For a dataset
\* of an unknown kind nothing was done for it: no load script, no dropdb, createdb or
\* load command. For a query of an unknown class or strategy no execution of that
\* query was issued. In both cases the run is halted (a halted run takes no further
\* step, so no later command is issued) and the report, closed, holds the rows of the
\* datasets before the one in progress and no row for it.
C11_UnsupportedHalts ==
    /\ bad_descr # "none" =>
         /\ pc = "halted"
         /\ report_buf = NoFile
         /\ Len(report_disk.rows) = di - 1
         /\ \A r \in 1..Len(report_disk.rows) : report_disk.rows[r].d # di
    /\ bad_descr = "data" => setup = <<>> /\ load_script # di /\ loaded # di
    /\ bad_descr = "query" => executions = 0 /\ outcomes = <<>>

\* A batch whose second query has no constructor: the first query of the dataset was
\* measured, the run halted at the second, and the report has no row.
C11_Witness ==
    /\ pc = "halted"
    /\ bad_descr = "query"
    /\ qi = 2
    /\ Len(summaries[di]) = 1
    /\ report_disk.rows = <<>>


----------------------------------------------------------------------------
(* The WITH list of a windowed query, read as text.                        *)

\* The stages 'name AS ( select )' of the statement, and its final select.
StagesOf(stmt) == SplitTop(SubSeq(stmt, 2, FirstTop(stmt, "SELECT") - 1), ",")
FinalSelect(stmt) == SubSeq(stmt, FirstTop(stmt, "SELECT"), Len(stmt))
StageBody(stage) == SubSeq(stage, 4, Len(stage) - 1)
StageNames(stages) == [n \in 1..Len(stages) |-> stages[n][1]]

\* The names of the tables in the FROM clause of a select.
TablesRead(sel) ==
    LET from == FirstTop(sel, "FROM")
        ends == {p \in (from + 1)..Len(sel) :
                    sel[p] \in {"WHERE", "GROUP", "LIMIT", "HAVING"} /\ Depth(sel, p) = 0}
        last == IF ends = {} THEN Len(sel) ELSE MinOf(ends) - 1
        refs == SplitTop(SubSeq(sel, from + 1, last), ",")
    IN {refs[j][1] : j \in 1..Len(refs)}

\* The names of the columns a select yields.
ColumnsOut(sel) ==
    LET first == IF sel[2] = "DISTINCT" THEN 3 ELSE 2
        items == SplitTop(SubSeq(sel, first, FirstTop(sel, "FROM") - 1), ",")
    IN {ItemName(items[c]) : c \in 1..Len(items)}

ColumnNames == {"A", "B", "RK", "CNT"} \cup {Nm("X", i) : i \in 0..(MaxK + 1)}

\* The columns a select reads: <<table, column>>, table "" when the text names none.
\* A name that follows AS or ')' is the name given to an item, not a column read.
ColumnsRead(sel) ==
    {<<IF p > 2 /\ sel[p - 1] = "." THEN sel[p - 2] ELSE "", sel[p]>> :
        p \in {q \in 2..Len(sel) : sel[q] \in ColumnNames /\ sel[q - 1] \notin {"AS", ")"}}}

\* The columns of a table the first `n` stages define, or of R.
ColumnsOf(table, stages, n) ==
    IF table = "R" THEN {"A", "B"}
    ELSE UNION {ColumnsOut(StageBody(stages[m])) : m \in {q \in 1..n : stages[q][1] = table}}

\* A select whose tables are R or among the first `n` stages, and whose columns are
\* columns of the tables it reads.
ReadsDefined(sel, stages, n) ==
    /\ \A t \in TablesRead(sel) : t = "R" \/ \E m \in 1..n : stages[m][1] = t
    /\ \A r \in ColumnsRead(sel) :
         IF r[1] # ""
         THEN r[1] \in TablesRead(sel) /\ r[2] \in ColumnsOf(r[1], stages, n)
         ELSE \E t \in TablesRead(sel) : r[2] \in ColumnsOf(t, stages, n)

\* J<k+1>, W<k+1>, S<k+1>, ..., J1, W1, S1
DescendingStages(k) ==
    [n \in 1..(3 * (k + 1)) |->
        Nm(<<"J", "W", "S">>[((n - 1) % 3) + 1], (k + 1) - ((n - 1) \div 3))]

\* C12: in the text of every windowed query of the dispatch table, the stages of the
\* PATH and NEIGHBORHOOD queries are emitted from stage k+1 down to stage 1; every
\* stage is defined once; the tables a stage reads are R or stages defined before it
\* in the WITH list; the columns it reads are columns those tables have; and the
\* final select reads only stages that are defined (and columns they have). The text
\* is the same whatever rows R holds: it is read where R is empty.
C12_WindowedWellFormed ==
    (gen_pc = "script" /\ gen_rel = {} /\ gen_query.method = "windowed") =>
        LET stmt == ScriptQuery(gen_script)
            stages == StagesOf(stmt)
            names == StageNames(stages)
        IN  /\ stmt[1] = "WITH"
            /\ gen_query.kind \in {"TQ1", "TQ2"} =>
                 SubSeq(names, 1, 3 * (gen_query.k + 1)) = DescendingStages(gen_query.k)
            /\ \A m, n \in 1..Len(stages) : m # n => names[m] # names[n]
            /\ \A n \in 1..Len(stages) :
                 /\ stages[n][2] = "AS" /\ stages[n][3] = "(" /\ stages[n][Len(stages[n])] = ")"
                 /\ ReadsDefined(StageBody(stages[n]), stages, n - 1)
            /\ TablesRead(FinalSelect(stmt)) \subseteq {names[n] : n \in 1..Len(stages)}
            /\ ReadsDefined(FinalSelect(stmt), stages, Len(stages))

\* The script of a windowed NEIGHBORHOOD query with the largest k: 3 (k + 1) stages
\* J, W, S, where J<k> reads S<k+1>, and the stages C and S.
C12_Witness ==
    /\ gen_pc = "script" /\ gen_rel = {}
    /\ gen_query.kind = "TQ2" /\ gen_query.method = "windowed" /\ gen_query.k = MaxK
    /\ Len(StagesOf(ScriptQuery(gen_script))) = 3 * (MaxK + 1) + 2
    /\ Nm("S", MaxK + 1) \in TablesRead(StageBody(StagesOf(ScriptQuery(gen_script))[4]))


----------------------------------------------------------------------------
\* The run on which the first TIMEOUT occurred, 0 when none did.
FirstTimeout(seq) ==
    IF \E j \in 1..Len(seq) : seq[j] = TIMEOUT
    THEN MinOf({j \in 1..Len(seq) : seq[j] = TIMEOUT})
    ELSE 0

\* The summary recorded last: the one of the pair that finished last.
LastSummary ==
    LET d == IF pc = "prepare_data" \/ (pc = "prepare_query" /\ qi = 1) THEN di - 1 ELSE di
    IN summaries[d][Len(summaries[d])]

\* C13: the summary of a pair is TIMEOUT exactly when at least ceil(n / 2) of its n
\* collected results are TIMEOUT. Under hard_timeout it is TIMEOUT exactly when the
\* first TIMEOUT occurred on run 1 or run 2; when the first TIMEOUT occurred on run 3
\* or later the runs after it are skipped and the summary is a finite duration.
C13_SummaryTimeout ==
    PairFinished =>
        /\ result = TIMEOUT <=> 2 * Occurrences(outcomes, TIMEOUT) >= Len(outcomes)
        /\ hard_timeout =>
             /\ result = TIMEOUT <=> FirstTimeout(outcomes) \in {1, 2}
             /\ FirstTimeout(outcomes) >= 3 =>
                  /\ Len(outcomes) = FirstTimeout(outcomes)
                  /\ executions = FirstTimeout(outcomes)
                  /\ result \in Durations
                  /\ LastSummary = result

\* Under hard_timeout the third run of a pair timed out: the summary is a duration.
C13_Witness ==
    /\ hard_timeout /\ runs >= 3 /\ PairFinished
    /\ FirstTimeout(outcomes) = 3
    /\ result \in Durations


----------------------------------------------------------------------------
\* Two descriptors that differ in their threshold and in nothing else.
DifferOnlyInThreshold(p, q) ==
    /\ p.kind = q.kind /\ p.method = q.method /\ p.k = q.k
    /\ p.threshold # q.threshold

\* The last query of the batch that has the report column of query j.
LastWithColumn(qs, j) ==
    CHOOSE m \in j..Len(qs) :
        /\ query_descr(qs[m]) = query_descr(qs[j])
        /\ \A n \in (m + 1)..Len(qs) : query_descr(qs[n]) # query_descr(qs[j])

\* C14: the report column of a query is a function of its class, strategy and k, and
\* not of its threshold. Two queries of a batch that differ only in threshold are both
\* executed and summarised, and share one column name: in the row of every processed
\* dataset the cells under that name hold the summary of the later query, and the
\* summary of the earlier one is not in the row.
C14_ThresholdNotInColumn ==
    /\ \A q \in GenQueries : \A t \in 1..MaxThreshold :
           query_descr([q EXCEPT !.threshold = t]) = query_descr(q)
    /\ \A a, b \in 1..Len(queries) :
           (queries[a].kind = queries[b].kind /\ queries[a].method = queries[b].method
            /\ queries[a].k = queries[b].k)
             => query_descr(queries[a]) = query_descr(queries[b])
    /\ \A d \in 1..Len(report_disk.rows) :
           /\ Len(summaries[d]) = Len(queries)
           /\ \A j \in 1..Len(queries) :
                  report_disk.rows[d].cells[j] = summaries[d][LastWithColumn(queries, j)]
           /\ \A a, b \in 1..Len(queries) :
                  (a < b /\ DifferOnlyInThreshold(queries[a], queries[b])) =>
                      /\ report_disk.header[Len(_header_base) + a]
                           = report_disk.header[Len(_header_base) + b]
                      /\ report_disk.rows[d].cells[a] = report_disk.rows[d].cells[b]

\* A batch of two queries that differ only in threshold: the first was summarised by a
\* duration, the second by TIMEOUT, and the row holds TIMEOUT in both cells.
C14_Witness ==
    /\ pc = "done" /\ Len(queries) = 2
    /\ DifferOnlyInThreshold(queries[1], queries[2])
    /\ summaries[1] = <<1, TIMEOUT>>
    /\ report_disk.rows[1].cells = <<TIMEOUT, TIMEOUT>>

====
